---- MODULE Spec2Model ----
(***************************************************************************)
(* TailorTalk calendar agent: the /chat endpoint (app/main.py), its        *)
(* two-node LangGraph workflow call_model -> call_tool -> END with a       *)
(* MemorySaver checkpointer keyed by thread id, the two tool adapters      *)
(* (app/agent_tools.py) and the calendar client (app/google_calendar.py).  *)
(***************************************************************************)
EXTENDS Integers, Sequences, FiniteSets, TLC

(***************************************************************************)
(* Bounds of the model.                                                    *)
(***************************************************************************)
\* number of /chat requests of a run
MaxReqs == 2
\* largest number of tool calls in one model response
MaxCalls == 2

Reqs == 1..MaxReqs
Sessions == {"s1", "s2"}
UserMessages == {"", "hi"}
ModelTexts == {"ok"}

(***************************************************************************)
(* Python values that tools return: str, list, dict.  A dict is kept as    *)
(* its sequence of <<key, value>> items (insertion order).                 *)
(***************************************************************************)
PStr(s) == [t |-> "str", v |-> s]
PList(items) == [t |-> "list", v |-> items]
PDict(items) == [t |-> "dict", v |-> items]

IsStr(x) == x.t = "str"
IsList(x) == x.t = "list"
IsDict(x) == x.t = "dict"

\* key in d
HasKey(d, key) == \E i \in 1..Len(d.v) : d.v[i][1] = key

\* d.get(key, default)
DictGet(d, key, default) ==
    IF HasKey(d, key)
    THEN d.v[CHOOSE i \in 1..Len(d.v) : d.v[i][1] = key][2]
    ELSE default

\* bool(x) of a str, list or dict: non-empty
Truthy(x) == IF IsStr(x) THEN x.v # "" ELSE Len(x.v) > 0

(***************************************************************************)
(* str(value): the text of a Python literal, as its sequence of tokens.    *)
(* A string is one token (its quoted repr); brackets, braces, commas and   *)
(* colons are punctuation tokens.                                          *)
(***************************************************************************)
Punct(c) == [k |-> "punct", s |-> c]
StrTok(s) == [k |-> "str", s |-> s]

RECURSIVE Repr(_)
RECURSIVE ReprItems(_, _)
RECURSIVE ReprPairs(_, _)

Repr(x) ==
    IF IsStr(x) THEN <<StrTok(x.v)>>
    ELSE IF IsList(x) THEN <<Punct("[")>> \o ReprItems(x.v, 1) \o <<Punct("]")>>
    ELSE <<Punct("{")>> \o ReprPairs(x.v, 1) \o <<Punct("}")>>

ReprItems(items, i) ==
    IF i > Len(items) THEN <<>>
    ELSE Repr(items[i])
         \o (IF i < Len(items) THEN <<Punct(",")>> ELSE <<>>)
         \o ReprItems(items, i + 1)

ReprPairs(items, i) ==
    IF i > Len(items) THEN <<>>
    ELSE <<StrTok(items[i][1]), Punct(":")>> \o Repr(items[i][2])
         \o (IF i < Len(items) THEN <<Punct(",")>> ELSE <<>>)
         \o ReprPairs(items, i + 1)

(***************************************************************************)
(* ast.literal_eval(text): a recursive-descent parse of the token text.    *)
(* Each parser returns [ok, val, next]: whether a value was read, the      *)
(* value, and the index of the first token after it.                       *)
(***************************************************************************)
ParseFail == [ok |-> FALSE, val |-> PStr(""), next |-> 0]
IsTok(toks, i, c) == i <= Len(toks) /\ toks[i] = Punct(c)

RECURSIVE ParseValue(_, _)
RECURSIVE ParseListRest(_, _, _)
RECURSIVE ParseDictRest(_, _, _)

ParseValue(toks, i) ==
    IF i > Len(toks) THEN ParseFail
    ELSE IF toks[i].k = "str" THEN [ok |-> TRUE, val |-> PStr(toks[i].s), next |-> i + 1]
    ELSE IF toks[i] = Punct("[") THEN
        IF IsTok(toks, i + 1, "]")
        THEN [ok |-> TRUE, val |-> PList(<<>>), next |-> i + 2]
        ELSE ParseListRest(toks, i + 1, <<>>)
    ELSE IF toks[i] = Punct("{") THEN
        IF IsTok(toks, i + 1, "}")
        THEN [ok |-> TRUE, val |-> PDict(<<>>), next |-> i + 2]
        ELSE ParseDictRest(toks, i + 1, <<>>)
    ELSE ParseFail

\* the items of a list display after "[" or ",", up to and including "]"
ParseListRest(toks, i, acc) ==
    LET item == ParseValue(toks, i) IN
    IF ~item.ok THEN ParseFail
    ELSE IF IsTok(toks, item.next, "]")
         THEN [ok |-> TRUE, val |-> PList(Append(acc, item.val)), next |-> item.next + 1]
    ELSE IF IsTok(toks, item.next, ",")
         THEN ParseListRest(toks, item.next + 1, Append(acc, item.val))
    ELSE ParseFail

\* the key: value items of a dict display after "{" or ",", up to and including "}"
ParseDictRest(toks, i, acc) ==
    IF ~(i <= Len(toks) /\ toks[i].k = "str" /\ IsTok(toks, i + 1, ":")) THEN ParseFail
    ELSE LET item == ParseValue(toks, i + 2)
             pairs == Append(acc, <<toks[i].s, item.val>>) IN
         IF ~item.ok THEN ParseFail
         ELSE IF IsTok(toks, item.next, "}")
              THEN [ok |-> TRUE, val |-> PDict(pairs), next |-> item.next + 1]
         ELSE IF IsTok(toks, item.next, ",")
              THEN ParseDictRest(toks, item.next + 1, pairs)
         ELSE ParseFail

\* ast.literal_eval: the whole text must be one literal, else ValueError/SyntaxError
literal_eval(toks) ==
    LET p == ParseValue(toks, 1) IN
    IF p.ok /\ p.next = Len(toks) + 1 THEN p ELSE ParseFail

(***************************************************************************)
(* Reply text: a sequence of chunks.  A chunk is a piece of template or    *)
(* interpolated text, or a token of a raw tool output embedded in it.      *)
(***************************************************************************)
Text(s) == [k |-> "text", s |-> s]

\* f"{x}" of a value: a str is its characters, anything else its repr
Fmt(x) == IF IsStr(x) THEN <<Text(x.v)>> ELSE Repr(x)

Contains(body, s) == \E i \in 1..Len(body) : body[i] = Text(s)

(***************************************************************************)
(* Datetimes: minutes of wall-clock time, with a UTC offset when aware.    *)
(***************************************************************************)
Missing == "<missing>"
DefaultTimezone == "Asia/Kolkata"

\* UTC offsets, in minutes, the host's local timezone may have
HostOffsets == {0, 330}

\* pytz.timezone(name): the zone's UTC offset, or UnknownTimeZoneError
KnownTimezones == {"Asia/Kolkata", "UTC"}
TzOffset(name) == IF name = "Asia/Kolkata" THEN 330 ELSE 0

\* datetime.fromisoformat(s): a naive or aware datetime, or ValueError
IsoOk(s) == s \in {"2025-06-25T10:00:00", "2025-06-25T11:00:00",
                   "2025-06-25T10:00:00+05:30"}
fromisoformat(s) ==
    IF s = "2025-06-25T10:00:00" THEN [wall |-> 10 * 60, offset |-> 0, aware |-> FALSE]
    ELSE IF s = "2025-06-25T11:00:00" THEN [wall |-> 11 * 60, offset |-> 0, aware |-> FALSE]
    ELSE [wall |-> 10 * 60, offset |-> 330, aware |-> TRUE]

\* dt.astimezone(tz): a naive dt is taken as host local time
astimezone(dt, tz, host) ==
    LET utc == dt.wall - (IF dt.aware THEN dt.offset ELSE host)
    IN [wall |-> utc + TzOffset(tz), offset |-> TzOffset(tz), aware |-> TRUE]

\* dt.isoformat() of an aware datetime: wall-clock minutes and offset
isoformat(dt) == "T" \o ToString(dt.wall) \o "+" \o ToString(dt.offset)

(***************************************************************************)
(* Calendar backend (external): what one remote call may answer.           *)
(***************************************************************************)
Slot(a, b) == PDict(<< <<"start", PStr(a)>>, <<"end", PStr(b)>> >>)
BusyLists == { <<>>, <<Slot("T600+330", "T630+330"), Slot("T540+330", "T570+330")>> }

\* outcomes of service.freebusy().query(...).execute()
FreeBusyOutcomes ==
    {[kind |-> "ok", busy |-> b] : b \in BusyLists}
    \cup {[kind |-> "HttpError", busy |-> <<>>], [kind |-> "Exception", busy |-> <<>>]}

\* outcomes of service.events().insert(...).execute()
InsertOutcomes == {"ok", "HttpError", "Exception"}

\* the event resource the backend returns for an accepted insert
EventRecord(id, body) ==
    PDict(<< <<"kind", PStr("calendar#event")>>,
             <<"id", PStr(ToString(id))>>,
             <<"htmlLink", PStr("https://calendar/event?eid=" \o ToString(id))>>,
             <<"summary", PStr(body.summary)>>,
             <<"start", PDict(<< <<"dateTime", PStr(body.start)>>,
                                 <<"timeZone", PStr("Asia/Kolkata")>> >>)>>,
             <<"end", PDict(<< <<"dateTime", PStr(body.end)>>,
                               <<"timeZone", PStr("Asia/Kolkata")>> >>)>> >>)

(***************************************************************************)
(* Calendar client, app/google_calendar.py.  A call returns                *)
(* [raised, value, op]: the exception that escapes it ("" for none), the   *)
(* value returned, and the backend operation performed.                    *)
(***************************************************************************)
NoExc == ""
Returned(val, op) == [raised |-> NoExc, value |-> val, op |-> op]
Raised(exc, op) == [raised |-> exc, value |-> PStr(""), op |-> op]
BackendOp(name, outcome) == <<[op |-> name, outcome |-> outcome]>>

check_calendar_availability(start_time, end_time, out) ==
    IF out.kind = "ok" THEN Returned(PList(out.busy), BackendOp("freebusy", "ok"))
    ELSE IF out.kind = "HttpError" THEN Returned(PList(<<>>), BackendOp("freebusy", "HttpError"))
    ELSE Raised("Exception", BackendOp("freebusy", "Exception"))

create_calendar_event(summary, description, start_time, end_time, attendees, out, id) ==
    LET body == [summary |-> summary, start |-> isoformat(start_time),
                 end |-> isoformat(end_time)]
    IN IF out = "ok" THEN Returned(EventRecord(id, body), BackendOp("insert", "ok"))
       \* None
       ELSE IF out = "HttpError" THEN Returned(PDict(<<>>), BackendOp("insert", "HttpError"))
       ELSE Raised("Exception", BackendOp("insert", "Exception"))

(***************************************************************************)
(* Tool adapters, app/agent_tools.py.                                      *)
(***************************************************************************)
ArgOr(args, default) == IF args.timezone_str = Missing THEN default ELSE args.timezone_str

\* the parsing prefix shared by both adapters: does it raise?
ParsesOk(args) ==
    /\ ArgOr(args, DefaultTimezone) \in KnownTimezones
    /\ IsoOk(args.start_time_str)
    /\ IsoOk(args.end_time_str)

ParsedStart(args, host) ==
    astimezone(fromisoformat(args.start_time_str), ArgOr(args, DefaultTimezone), host)
ParsedEnd(args, host) ==
    astimezone(fromisoformat(args.end_time_str), ArgOr(args, DefaultTimezone), host)

check_calendar_availability_tool(args, host, out) ==
    IF ~ParsesOk(args) THEN Returned(PList(<<>>), <<>>)
    ELSE LET res == check_calendar_availability(ParsedStart(args, host), ParsedEnd(args, host), out)
         IN IF res.raised # NoExc THEN Returned(PList(<<>>), res.op) ELSE res

\* what the adapter passes to the client as start_time and end_time
SentTimes(args, host) ==
    IF ParsesOk(args) THEN <<ParsedStart(args, host), ParsedEnd(args, host)>> ELSE <<>>

\* the adapter without its try / except
create_calendar_event_toolMut(args, host, out, id) ==
    IF ~ParsesOk(args) THEN Raised("ValueError", <<>>)
    ELSE LET res == create_calendar_event(args.summary, args.description,
                        ParsedStart(args, host), ParsedEnd(args, host), args.attendees, out, id)
         IN IF res.raised # NoExc THEN res
            ELSE IF Truthy(res.value) THEN res ELSE Returned(PDict(<<>>), res.op)

create_calendar_event_tool(args, host, out, id) ==
    IF ~ParsesOk(args) THEN Returned(PDict(<<>>), <<>>)
    ELSE LET res == create_calendar_event(args.summary, args.description,
                        ParsedStart(args, host), ParsedEnd(args, host), args.attendees, out, id)
         IN IF res.raised # NoExc THEN Returned(PDict(<<>>), res.op)
            ELSE IF Truthy(res.value) THEN res ELSE Returned(PDict(<<>>), res.op)

(***************************************************************************)
(* Messages and tool calls.                                                *)
(***************************************************************************)
HumanMessage(content, id) ==
    [type |-> "human", content |-> content, tool_calls |-> <<>>, id |-> id]
AIMessage(content, tool_calls, id) ==
    [type |-> "ai", content |-> content, tool_calls |-> tool_calls, id |-> id]

ToolNames == {"check_calendar_availability_tool", "create_calendar_event_tool"}

\* arguments as the model emits them; Missing stands for a key that is absent
CheckArgs == [summary |-> Missing, description |-> Missing,
              start_time_str |-> "2025-06-25T10:00:00",
              end_time_str |-> "2025-06-25T11:00:00",
              attendees |-> <<>>, timezone_str |-> Missing]
NoStartArgs == [CheckArgs EXCEPT !.start_time_str = Missing]
CreateArgs == [CheckArgs EXCEPT !.summary = "Call", !.description = "sync",
                                !.attendees = <<"alice@x.com">>]
BadDateArgs == [CreateArgs EXCEPT !.start_time_str = "not-a-date"]

\* the tool calls a model response may hold
ToolCallRequests ==
    { [name |-> "check_calendar_availability_tool", args |-> CheckArgs],
      [name |-> "check_calendar_availability_tool", args |-> NoStartArgs],
      [name |-> "create_calendar_event_tool", args |-> CreateArgs],
      [name |-> "create_calendar_event_tool", args |-> BadDateArgs],
      [name |-> "delete_calendar_event_tool", args |-> CheckArgs] }

SeqsUpTo(S, n) == UNION { [1..k -> S] : k \in 0..n }

\* what llm_with_tools.invoke may answer: a message, or an exception
ModelResponses ==
    { [raised |-> NoExc, content |-> c, tool_calls |-> tc] :
        c \in ModelTexts, tc \in SeqsUpTo(ToolCallRequests, MaxCalls) }
    \cup { [raised |-> "ModelInvocationError", content |-> "", tool_calls |-> <<>>] }

\* the args_schema of a @tool: the parameters without a default must be present
RequiredArgsPresent(name, args) ==
    /\ args.start_time_str # Missing
    /\ args.end_time_str # Missing
    /\ name = "create_calendar_event_tool" =>
          args.summary # Missing /\ args.description # Missing

\* tool.invoke(tool_args): validate against the schema, then run the function
ToolInvoke(name, args, host, out, id) ==
    IF ~RequiredArgsPresent(name, args) THEN Raised("ValidationError", <<>>)
    ELSE IF name = "check_calendar_availability_tool"
         THEN check_calendar_availability_tool(args, host, out.freebusy)
    ELSE create_calendar_event_tool(args, host, out.insert, id)

\* one iteration of call_tool's loop
DispatchOne(tool_call, host, out, id) ==
    IF tool_call.name \in ToolNames
    THEN ToolInvoke(tool_call.name, tool_call.args, host, out, id)
    ELSE Returned(PStr("Error: Unknown tool " \o tool_call.name), <<>>)

\* what the backend may answer to the remote call a tool call leads to (one
\* fixed answer where the call reaches no backend operation)
NoOutcome == [freebusy |-> [kind |-> "ok", busy |-> <<>>], insert |-> "ok"]
BackendOutcomes(tool_call) ==
    IF ~(tool_call.name \in ToolNames /\ RequiredArgsPresent(tool_call.name, tool_call.args)
         /\ ParsesOk(tool_call.args))
    THEN {NoOutcome}
    ELSE IF tool_call.name = "check_calendar_availability_tool"
         THEN {[NoOutcome EXCEPT !.freebusy = o] : o \in FreeBusyOutcomes}
    ELSE {[NoOutcome EXCEPT !.insert = o] : o \in InsertOutcomes}

(***************************************************************************)
(* Reply formatting of chat_endpoint.  The templates are the source's,     *)
(* without their emoji and with ' for the backquote.                       *)
(***************************************************************************)
EventCreatedText == "\n\n**Event Created Successfully!**\n"
BusySlotsText == "\n\n**Calendar Availability:**\nThe following slots are busy:\n"
FreeText == "\n\n**Calendar Availability:** You appear to be free during that period!"
RawText == "\n\n**Raw Tool Output:**\n'''json\n"
ParseErrorText == "\n\n**Tool Output Parsing Error:**\n'''\n"
ApologyText == "Sorry, an internal error occurred: "
EmptyMessageText == "Please provide a message."

IsSlot(item) == IsDict(item) /\ HasKey(item, "start") /\ HasKey(item, "end")

RECURSIVE SlotLines(_, _)
SlotLines(slots, i) ==
    IF i > Len(slots) THEN <<>>
    ELSE (IF i > 1 THEN <<Text("\n")>> ELSE <<>>)
         \o <<Text("  - From '")>> \o Fmt(DictGet(slots[i], "start", PStr("N/A")))
         \o <<Text("' to '")>> \o Fmt(DictGet(slots[i], "end", PStr("N/A")))
         \o <<Text("'")>>
         \o SlotLines(slots, i + 1)

EventCreatedOutput(event) ==
    LET start == DictGet(event, "start", PDict(<<>>))
        end == DictGet(event, "end", PDict(<<>>))
    IN IF ~IsDict(start) \/ ~IsDict(end) THEN [raised |-> "AttributeError", out |-> <<>>]
       ELSE [raised |-> NoExc,
             out |-> <<Text(EventCreatedText), Text("- **Title:** ")>>
                     \o Fmt(DictGet(event, "summary", PStr("An event")))
                     \o <<Text("\n- **Time:** ")>>
                     \o Fmt(DictGet(start, "dateTime", PStr("N/A")))
                     \o <<Text(" to ")>>
                     \o Fmt(DictGet(end, "dateTime", PStr("N/A")))
                     \o <<Text("\n- **View Event:** [Click here](")>>
                     \o Fmt(DictGet(event, "htmlLink", PStr("#")))
                     \o <<Text(")\n"),
                          Text("*(Please check your Google Calendar for full details and invites.)*")>>]

\* FormatToolOutput that looks for the created event in the last place
FormatToolOutputLast(tool_output_raw) ==
    LET parsed == literal_eval(tool_output_raw)
        tool_data == parsed.val
    IN IF ~parsed.ok
       THEN [raised |-> NoExc, out |-> <<Text(ParseErrorText)>> \o tool_output_raw \o <<Text("\n'''")>>]
       ELSE IF ~Truthy(tool_data) THEN [raised |-> NoExc, out |-> <<>>]
       ELSE IF /\ IsList(tool_data) /\ Len(tool_data.v) > 0
               /\ IsDict(tool_data.v[Len(tool_data.v)])
               /\ DictGet(tool_data.v[Len(tool_data.v)], "kind", PStr("")) = PStr("calendar#event")
            THEN EventCreatedOutput(tool_data.v[Len(tool_data.v)])
       ELSE IF IsList(tool_data) /\ \A i \in 1..Len(tool_data.v) : IsSlot(tool_data.v[i])
            THEN IF Truthy(tool_data)
                 THEN [raised |-> NoExc,
                       out |-> <<Text(BusySlotsText)>> \o SlotLines(tool_data.v, 1)]
                 ELSE [raised |-> NoExc, out |-> <<Text(FreeText)>>]
       ELSE [raised |-> NoExc, out |-> <<Text(RawText)>> \o tool_output_raw \o <<Text("\n'''")>>]

\* FormatToolOutput that takes any mapping in the first place for a created event
FormatToolOutputAnyDict(tool_output_raw) ==
    LET parsed == literal_eval(tool_output_raw)
        tool_data == parsed.val
    IN IF ~parsed.ok
       THEN [raised |-> NoExc, out |-> <<Text(ParseErrorText)>> \o tool_output_raw \o <<Text("\n'''")>>]
       ELSE IF ~Truthy(tool_data) THEN [raised |-> NoExc, out |-> <<>>]
       ELSE IF /\ IsList(tool_data) /\ Len(tool_data.v) > 0
               /\ IsDict(tool_data.v[1])
            THEN EventCreatedOutput(tool_data.v[1])
       ELSE IF IsList(tool_data) /\ \A i \in 1..Len(tool_data.v) : IsSlot(tool_data.v[i])
            THEN IF Truthy(tool_data)
                 THEN [raised |-> NoExc,
                       out |-> <<Text(BusySlotsText)>> \o SlotLines(tool_data.v, 1)]
                 ELSE [raised |-> NoExc, out |-> <<Text(FreeText)>>]
       ELSE [raised |-> NoExc, out |-> <<Text(RawText)>> \o tool_output_raw \o <<Text("\n'''")>>]

\* FormatToolOutput without the outer "if tool_data:" test
FormatToolOutputMut(tool_output_raw) ==
    LET parsed == literal_eval(tool_output_raw)
        tool_data == parsed.val
    IN IF ~parsed.ok
       THEN [raised |-> NoExc, out |-> <<Text(ParseErrorText)>> \o tool_output_raw \o <<Text("\n'''")>>]
       ELSE IF /\ IsList(tool_data) /\ Len(tool_data.v) > 0
               /\ IsDict(tool_data.v[1])
               /\ DictGet(tool_data.v[1], "kind", PStr("")) = PStr("calendar#event")
            THEN EventCreatedOutput(tool_data.v[1])
       ELSE IF IsList(tool_data) /\ \A i \in 1..Len(tool_data.v) : IsSlot(tool_data.v[i])
            THEN IF Truthy(tool_data)
                 THEN [raised |-> NoExc,
                       out |-> <<Text(BusySlotsText)>> \o SlotLines(tool_data.v, 1)]
                 ELSE [raised |-> NoExc, out |-> <<Text(FreeText)>>]
       ELSE [raised |-> NoExc, out |-> <<Text(RawText)>> \o tool_output_raw \o <<Text("\n'''")>>]

\* formatted_tool_output of chat_endpoint, from the stored text of the tool output
FormatToolOutput(tool_output_raw) ==
    LET parsed == literal_eval(tool_output_raw)
        tool_data == parsed.val
    IN IF ~parsed.ok
       THEN [raised |-> NoExc, out |-> <<Text(ParseErrorText)>> \o tool_output_raw \o <<Text("\n'''")>>]
       ELSE IF ~Truthy(tool_data) THEN [raised |-> NoExc, out |-> <<>>]
       ELSE IF /\ IsList(tool_data) /\ Len(tool_data.v) > 0
               /\ IsDict(tool_data.v[1])
               /\ DictGet(tool_data.v[1], "kind", PStr("")) = PStr("calendar#event")
            THEN EventCreatedOutput(tool_data.v[1])
       ELSE IF IsList(tool_data) /\ \A i \in 1..Len(tool_data.v) : IsSlot(tool_data.v[i])
            THEN IF Truthy(tool_data)
                 THEN [raised |-> NoExc,
                       out |-> <<Text(BusySlotsText)>> \o SlotLines(tool_data.v, 1)]
                 ELSE [raised |-> NoExc, out |-> <<Text(FreeText)>>]
       ELSE [raised |-> NoExc, out |-> <<Text(RawText)>> \o tool_output_raw \o <<Text("\n'''")>>]

(***************************************************************************)
(* State.                                                                  *)
(***************************************************************************)
VARIABLES
    memory,            \* MemorySaver: thread id -> state values of its latest checkpoint
    pc,                \* request -> where its handler is
    req,               \* request -> the ChatRequest (session_id, message)
    channels,          \* request -> state values held by its running app_agent.invoke
    tool_output_list,  \* request -> call_tool's local list
    calls,             \* request -> backend operations its turn performed, in order
    raised,            \* request -> the exception e its except clause caught, if any
    response,          \* request -> what chat_endpoint gave its caller
    calendar,          \* number of events inserted in the backend
    host_utcoffset,    \* UTC offset of the host's local timezone
    model_calls,       \* request -> the message lists llm_with_tools.invoke was given
    dispatched,        \* request -> per tool call handled: the call and what it gave
    service,           \* calendar_service of agent_tools: where its initialization is
    refreshing,        \* number of credential refreshes / authorizations in flight
    adapter            \* a tool adapter applied on its own: its input and result

vars == <<memory, pc, req, channels, tool_output_list, calls, raised, response,
          calendar, host_utcoffset, model_calls, dispatched, service, refreshing,
          adapter>>

\* tool_output before any call_tool has written it
Unset == <<>>
EmptyState == [messages |-> <<>>, tool_output |-> Unset]
NoRequest == [session_id |-> "", message |-> ""]
NoResponse == [status |-> "none", body |-> <<>>]
NoAdapterRun == [phase |-> "idle"]

\* a messages channel without its reducer: the update replaces the value
add_messagesMut(x, y) == y

\* the reducer of AgentState.messages
add_messages(x, y) == x \o y

\* one thread id for every request
ThreadIdMut(r) == "s1"

\* the checkpointer's key for a request
ThreadId(r) == req[r].session_id

\* MemorySaver.put: the run's state values become the thread's latest checkpoint
SaveCheckpoint(r, values) == [memory EXCEPT ![ThreadId(r)] = values]

\* a handler that yields the event loop while its turn runs
EventLoopFreeMut == TRUE

\* chat_endpoint is a coroutine that never awaits, served by the one event loop
\* of uvicorn.run: a handler starts only when no other handler is running
Running(r) == pc[r] \in {"call_model", "call_tool", "format"}
EventLoopFree == \A q \in Reqs : ~Running(q)

\* an except clause that names only the parsing errors
HandlerCatchesMut(exc) == exc \in {"ValueError", "SyntaxError"}

\* except Exception: the classes the endpoint's handler catches
HandlerCatches(exc) ==
    exc \in {"ModelInvocationError", "ValidationError", "AttributeError", "Exception"}

Reply(body) == [status |-> "returned", body |-> body]
ErrorResponse(exc) ==
    IF HandlerCatches(exc) THEN Reply(<<Text(ApologyText), Text(exc)>>)
    ELSE [status |-> "raised", body |-> <<>>]

\* str(tool_result) of the last result in place of str(tool_output_list)
ToolOutputTextMut(list) ==
    IF list = <<>> THEN Repr(PList(<<>>)) ELSE Repr(list[Len(list)])

\* call_tool's return value: str(tool_output_list)
ToolOutputText(list) == Repr(PList(list))

\* a channel without a reducer that keeps what it held and adds the update
UpdateToolOutputMut(old, new) ==
    IF old = Unset THEN new
    ELSE Repr(PList(literal_eval(old).val.v \o literal_eval(new).val.v))

\* AgentState.tool_output has no reducer: an update replaces the value
UpdateToolOutput(old, new) == new

\* a call_model that catches the failure and answers with a message of its own
NodeRaisedMut(state, exc, r) ==
    [state EXCEPT !.messages = @ \o <<AIMessage(exc, <<>>, r)>>]

\* the state of a thread after call_model raised: the node has no try, the
\* exception leaves it and the graph run, and no update is written
NodeRaised(state, exc, r) == state

\* an edge from call_tool back to call_model
NextNodeMut(node) == IF node = "call_model" THEN "call_tool" ELSE "call_model"

\* the edges of the workflow: call_model -> call_tool -> END
NextNode(node) == IF node = "call_model" THEN "call_tool" ELSE "END"

\* where the handler is after a node: END hands final_state to the formatting
AfterNode(node) == IF NextNode(node) = "END" THEN "format" ELSE NextNode(node)

\* a model call that is given the new message only
ModelInputMut(state) == <<state.messages[Len(state.messages)]>>

\* call_model: messages = state['messages']
ModelInput(state) == state.messages

\* a handler without the empty-message test
IsEmptyMessageMut(user_message) == FALSE

\* not user_message
IsEmptyMessage(user_message) == user_message = ""

\* module code that runs again while a first run is in progress
ImportOnceMut == TRUE

\* agent_tools runs calendar_service = get_calendar_service() at import, once
ImportOnce == service = "unloaded"

\* final_state.get('tool_output', '[]')
GetToolOutput(state) ==
    IF state.tool_output = Unset THEN Repr(PList(<<>>)) ELSE state.tool_output

LastMessage(state) == state.messages[Len(state.messages)]

Init ==
    /\ memory = [s \in Sessions |-> EmptyState]
    /\ pc = [r \in Reqs |-> "idle"]
    /\ req = [r \in Reqs |-> NoRequest]
    /\ channels = [r \in Reqs |-> EmptyState]
    /\ tool_output_list = [r \in Reqs |-> <<>>]
    /\ calls = [r \in Reqs |-> <<>>]
    /\ raised = [r \in Reqs |-> NoExc]
    /\ response = [r \in Reqs |-> NoResponse]
    /\ calendar = 0
    /\ host_utcoffset \in HostOffsets
    /\ model_calls = [r \in Reqs |-> <<>>]
    /\ dispatched = [r \in Reqs |-> <<>>]
    /\ service = "unloaded"
    /\ refreshing = 0
    /\ adapter = NoAdapterRun

(***************************************************************************)
(* Import of app.agent_tools: calendar_service = get_calendar_service().   *)
(* The server accepts requests once the import has ended.                  *)
(***************************************************************************)
TokenStates == {"valid", "expired", "absent"}

\* get_calendar_service up to the refresh or the interactive flow
GetServiceBegin ==
    /\ ImportOnce
    /\ \E token \in TokenStates :
          IF token = "valid"
          THEN service' = "ready" /\ UNCHANGED refreshing
          ELSE service' = "authorizing" /\ refreshing' = refreshing + 1
    /\ UNCHANGED <<memory, pc, req, channels, tool_output_list, calls, raised,
                   response, calendar, host_utcoffset, model_calls, dispatched,
                   adapter>>

\* the refresh or flow has returned: token.pickle is written, the service built
GetServiceEnd ==
    /\ refreshing > 0
    /\ refreshing' = refreshing - 1
    /\ service' = "ready"
    /\ UNCHANGED <<memory, pc, req, channels, tool_output_list, calls, raised,
                   response, calendar, host_utcoffset, model_calls, dispatched,
                   adapter>>

\* the refresh or flow has raised: the import fails and the process ends
GetServiceFail ==
    /\ refreshing > 0
    /\ refreshing' = refreshing - 1
    /\ service' = "failed"
    /\ UNCHANGED <<memory, pc, req, channels, tool_output_list, calls, raised,
                   response, calendar, host_utcoffset, model_calls, dispatched,
                   adapter>>

(***************************************************************************)
(* POST /chat arrives.  Requests are numbered in arrival order.            *)
(***************************************************************************)
Submit(r, s, m) ==
    /\ service = "ready"
    /\ pc[r] = "idle"
    /\ \A q \in Reqs : q < r => pc[q] # "idle"
    /\ req' = [req EXCEPT ![r] = [session_id |-> s, message |-> m]]
    /\ pc' = [pc EXCEPT ![r] = "queued"]
    /\ UNCHANGED <<memory, channels, tool_output_list, calls, raised, response,
                   calendar, host_utcoffset, model_calls, dispatched, service,
                   refreshing, adapter>>

\* chat_endpoint with an empty message
RejectEmpty(r) ==
    /\ pc[r] = "queued"
    /\ EventLoopFree
    /\ IsEmptyMessage(req[r].message)
    /\ response' = [response EXCEPT ![r] = Reply(<<Text(EmptyMessageText)>>)]
    /\ pc' = [pc EXCEPT ![r] = "done"]
    /\ UNCHANGED <<memory, req, channels, tool_output_list, calls, raised, calendar,
                   host_utcoffset, model_calls, dispatched, service, refreshing,
                   adapter>>

\* chat_endpoint up to the first step of app_agent.invoke: load the thread's
\* checkpoint, apply the input through the reducer, save the input checkpoint
StartTurn(r) ==
    /\ pc[r] = "queued"
    /\ EventLoopFree
    /\ ~IsEmptyMessage(req[r].message)
    /\ LET loaded == memory[ThreadId(r)]
           values == [loaded EXCEPT !.messages =
                        add_messages(@, <<HumanMessage(req[r].message, r)>>)]
       IN /\ channels' = [channels EXCEPT ![r] = values]
          /\ memory' = SaveCheckpoint(r, values)
    /\ pc' = [pc EXCEPT ![r] = "call_model"]
    /\ UNCHANGED <<req, tool_output_list, calls, raised, response, calendar,
                   host_utcoffset, model_calls, dispatched, service, refreshing,
                   adapter>>

\* node call_model
CallModel(r) ==
    /\ pc[r] = "call_model"
    /\ model_calls' = [model_calls EXCEPT ![r] = Append(@, ModelInput(channels[r]))]
    /\ \E resp \in ModelResponses :
        IF resp.raised # NoExc
        THEN /\ raised' = [raised EXCEPT ![r] = resp.raised]
             /\ response' = [response EXCEPT ![r] = ErrorResponse(resp.raised)]
             /\ pc' = [pc EXCEPT ![r] = "done"]
             /\ channels' = [channels EXCEPT ![r] = NodeRaised(@, resp.raised, r)]
             /\ memory' = [memory EXCEPT ![ThreadId(r)] = NodeRaised(@, resp.raised, r)]
        ELSE LET values == [channels[r] EXCEPT !.messages =
                              add_messages(@, <<AIMessage(resp.content, resp.tool_calls, r)>>)]
             IN /\ channels' = [channels EXCEPT ![r] = values]
                /\ memory' = SaveCheckpoint(r, values)
                /\ pc' = [pc EXCEPT ![r] = AfterNode("call_model")]
                /\ UNCHANGED <<raised, response>>
    /\ UNCHANGED <<req, tool_output_list, calls, calendar, host_utcoffset, dispatched,
                   service, refreshing, adapter>>

\* node call_tool: one iteration of the loop over last_message.tool_calls
DispatchToolCall(r) ==
    /\ pc[r] = "call_tool"
    /\ LET tool_calls == LastMessage(channels[r]).tool_calls
           i == Len(tool_output_list[r]) + 1
       IN /\ i <= Len(tool_calls)
          /\ \E out \in BackendOutcomes(tool_calls[i]) :
              LET res == DispatchOne(tool_calls[i], host_utcoffset, out, calendar + 1)
                  inserted == res.op = BackendOp("insert", "ok")
              IN /\ calls' = [calls EXCEPT ![r] = @ \o res.op]
                 /\ dispatched' = [dispatched EXCEPT ![r] =
                        Append(@, [call |-> tool_calls[i], raised |-> res.raised,
                                   value |-> res.value, op |-> res.op])]
                 /\ calendar' = IF inserted THEN calendar + 1 ELSE calendar
                 /\ IF res.raised # NoExc
                    THEN /\ raised' = [raised EXCEPT ![r] = res.raised]
                         /\ response' = [response EXCEPT ![r] = ErrorResponse(res.raised)]
                         /\ pc' = [pc EXCEPT ![r] = "done"]
                         /\ UNCHANGED tool_output_list
                    ELSE /\ tool_output_list' =
                              [tool_output_list EXCEPT ![r] = Append(@, res.value)]
                         /\ UNCHANGED <<raised, response, pc>>
    /\ UNCHANGED <<memory, req, channels, host_utcoffset, model_calls, service,
                   refreshing, adapter>>

\* node call_tool: the return after the loop, and the checkpoint of the step
ReturnToolOutput(r) ==
    /\ pc[r] = "call_tool"
    /\ Len(tool_output_list[r]) = Len(LastMessage(channels[r]).tool_calls)
    /\ LET values == [channels[r] EXCEPT !.tool_output =
                          UpdateToolOutput(@, ToolOutputText(tool_output_list[r]))]
       IN /\ channels' = [channels EXCEPT ![r] = values]
          /\ memory' = SaveCheckpoint(r, values)
    /\ pc' = [pc EXCEPT ![r] = AfterNode("call_tool")]
    /\ UNCHANGED <<req, tool_output_list, calls, raised, response, calendar,
                   host_utcoffset, model_calls, dispatched, service, refreshing,
                   adapter>>

\* chat_endpoint after app_agent.invoke returned final_state
FormatReply(r) ==
    /\ pc[r] = "format"
    /\ LET final_state == channels[r]
           agent_text_response == LastMessage(final_state).content
           formatted == FormatToolOutput(GetToolOutput(final_state))
       IN /\ raised' = [raised EXCEPT ![r] = formatted.raised]
          /\ response' = [response EXCEPT ![r] =
                IF formatted.raised # NoExc THEN ErrorResponse(formatted.raised)
                ELSE Reply(<<Text(agent_text_response)>> \o formatted.out)]
    /\ pc' = [pc EXCEPT ![r] = "done"]
    /\ UNCHANGED <<memory, req, channels, tool_output_list, calls, calendar,
                   host_utcoffset, model_calls, dispatched, service, refreshing,
                   adapter>>

(***************************************************************************)
(* A tool adapter applied on its own, to any argument strings and any      *)
(* answer of the backend.                                                  *)
(***************************************************************************)
AdapterStartStrings == {"2025-06-25T10:00:00", "2025-06-25T10:00:00+05:30", "not-a-date"}
AdapterEndStrings == {"2025-06-25T11:00:00", "not-a-date"}
AdapterTimezones == {Missing, "Asia/Kolkata", "UTC", "Mars/Olympus"}
AdapterArgs ==
    {[CreateArgs EXCEPT !.start_time_str = a, !.end_time_str = b, !.timezone_str = z] :
        a \in AdapterStartStrings, b \in AdapterEndStrings, z \in AdapterTimezones}

AdapterRun(name, args, backend_ok, result) ==
    [phase |-> "returned", name |-> name, args |-> args, backend_ok |-> backend_ok,
     sent |-> SentTimes(args, host_utcoffset), result |-> result]

ApplyCheckTool(args, out) ==
    /\ adapter = NoAdapterRun
    /\ adapter' = AdapterRun("check_calendar_availability_tool", args, out.kind = "ok",
                       check_calendar_availability_tool(args, host_utcoffset, out))
    /\ UNCHANGED <<memory, pc, req, channels, tool_output_list, calls, raised,
                   response, calendar, host_utcoffset, model_calls, dispatched,
                   service, refreshing>>

ApplyCreateTool(args, out) ==
    /\ adapter = NoAdapterRun
    /\ adapter' = AdapterRun("create_calendar_event_tool", args, out = "ok",
                       create_calendar_event_tool(args, host_utcoffset, out, calendar + 1))
    /\ UNCHANGED <<memory, pc, req, channels, tool_output_list, calls, raised,
                   response, calendar, host_utcoffset, model_calls, dispatched,
                   service, refreshing>>

AdapterNext ==
    \E args \in AdapterArgs :
        \/ \E out \in FreeBusyOutcomes : ApplyCheckTool(args, out)
        \/ \E out \in InsertOutcomes : ApplyCreateTool(args, out)

AdapterSpec == Init /\ [][AdapterNext]_vars

Next ==
    \/ GetServiceBegin
    \/ GetServiceEnd
    \/ GetServiceFail
    \/ \E r \in Reqs :
        \/ \E s \in Sessions, m \in UserMessages : Submit(r, s, m)
        \/ RejectEmpty(r)
        \/ StartTurn(r)
        \/ CallModel(r)
        \/ DispatchToolCall(r)
        \/ ReturnToolOutput(r)
        \/ FormatReply(r)

Spec == Init /\ [][Next]_vars

(***************************************************************************)
(* Vocabulary of the properties.                                           *)
(***************************************************************************)
Done(r) == pc[r] = "done"

\* the model answered request r's turn: its run's last message is r's AIMessage
ModelResponded(r) ==
    /\ Len(channels[r].messages) > 0
    /\ LastMessage(channels[r]).type = "ai"
    /\ LastMessage(channels[r]).id = r

\* the tool calls the model requested in r's turn
Requested(r) == LastMessage(channels[r]).tool_calls

\* the turn of r ran call_tool to its end and stored this turn's results
StoredThisTurn(r) == Done(r) /\ ModelResponded(r) /\ raised[r] # "ValidationError"

\* the tool output the session holds when r's turn has ended, read back as a value
StoredOutput(r) == literal_eval(GetToolOutput(channels[r]))

\* entry is a value the call can produce when it is handled in its own slot
EntryOf(call, entry) ==
    IF call.name = "check_calendar_availability_tool"
    THEN IsList(entry) /\ \A i \in 1..Len(entry.v) : IsSlot(entry.v[i])
    ELSE IF call.name = "create_calendar_event_tool"
    THEN IsDict(entry)
         /\ (entry = PDict(<<>>) \/ DictGet(entry, "kind", PStr("")) = PStr("calendar#event"))
    ELSE entry = PStr("Error: Unknown tool " \o call.name)

IsInsert(op) == op.op = "insert"
Inserts(r) == SelectSeq(calls[r], IsInsert)

(***************************************************************************)
(* C1: in every ended turn whose model response requested N >= 1 tool      *)
(* calls, the stored tool output has exactly N entries, entry i being the  *)
(* result of the i-th call, and no failing call aborts the turn.           *)
(***************************************************************************)
C1_OneEntryPerCall ==
    \A r \in Reqs :
        (Done(r) /\ ModelResponded(r) /\ Len(Requested(r)) >= 1) =>
            /\ raised[r] = NoExc
            /\ StoredOutput(r).ok
            /\ IsList(StoredOutput(r).val)
            /\ Len(StoredOutput(r).val.v) = Len(Requested(r))
            /\ StoredOutput(r).val.v = tool_output_list[r]
            /\ \A i \in 1..Len(Requested(r)) :
                  EntryOf(Requested(r)[i], StoredOutput(r).val.v[i])

(***************************************************************************)
(* C2: in every ended turn whose model response requested no tool call,    *)
(* the stored tool output is the empty list and the reply is the model's   *)
(* text with nothing appended.                                             *)
(***************************************************************************)
C2_NoCallsPlainReply ==
    \A r \in Reqs :
        (Done(r) /\ ModelResponded(r) /\ Len(Requested(r)) = 0) =>
            /\ channels[r].tool_output # Unset
            /\ literal_eval(channels[r].tool_output) =
                  [ok |-> TRUE, val |-> PList(<<>>), next |-> Len(channels[r].tool_output) + 1]
            /\ response[r] = Reply(<<Text(LastMessage(channels[r]).content)>>)

\* a turn without tool calls has ended on a session whose earlier turn stored results
C2_Witness ==
    \E r, q \in Reqs :
        /\ q < r /\ Done(q) /\ Done(r)
        /\ req[q].session_id = req[r].session_id
        /\ StoredThisTurn(q) /\ Len(tool_output_list[q]) >= 1
        /\ ModelResponded(r) /\ Len(Requested(r)) = 0

(***************************************************************************)
(* C3: no exception escapes chat_endpoint: an ended request has a reply,   *)
(* and when something failed inside the turn the reply is the apology.     *)
(***************************************************************************)
C3_NeverRaises ==
    \A r \in Reqs :
        /\ response[r].status # "raised"
        /\ Done(r) => response[r].status = "returned" /\ Len(response[r].body) >= 1
        /\ raised[r] # NoExc =>
              /\ Done(r)
              /\ response[r].body = <<Text(ApologyText), Text(raised[r])>>

\* a model invocation failure and a tool dispatch failure have both been answered
C3_Witness ==
    \E r, q \in Reqs :
        /\ Done(r) /\ raised[r] = "ModelInvocationError"
        /\ Done(q) /\ raised[q] = "ValidationError"

(***************************************************************************)
(* C4: a turn with one availability check that the backend answers with    *)
(* no busy interval replies "You appear to be free" and inserts no event.  *)
(***************************************************************************)
OneCheckCall(r) ==
    /\ Done(r) /\ ModelResponded(r)
    /\ Len(Requested(r)) = 1
    /\ Requested(r)[1].name = "check_calendar_availability_tool"
    /\ calls[r] = BackendOp("freebusy", "ok")

C4_FreeReply ==
    \A r \in Reqs :
        (OneCheckCall(r) /\ tool_output_list[r] = <<PList(<<>>)>>) =>
            /\ response[r].status = "returned"
            /\ Contains(response[r].body, FreeText)
            /\ Inserts(r) = <<>>

(***************************************************************************)
(* C5: a turn with one availability check that the backend answers with    *)
(* busy intervals renders them with the busy-slots template, one line per  *)
(* interval in backend order, and not with the raw fallback.               *)
(***************************************************************************)
C5_BusyReply ==
    \A r \in Reqs :
        (OneCheckCall(r) /\ Len(tool_output_list[r]) = 1
            /\ Len(tool_output_list[r][1].v) >= 1) =>
            /\ response[r].status = "returned"
            /\ response[r].body =
                  <<Text(LastMessage(channels[r]).content), Text(BusySlotsText)>>
                  \o SlotLines(tool_output_list[r][1].v, 1)
            /\ ~Contains(response[r].body, RawText)

(***************************************************************************)
(* C6: a turn with one create_calendar_event_tool call that the backend    *)
(* accepts adds exactly two messages to the session's history, the user    *)
(* message then the assistant message, stores exactly one result, the      *)
(* created-event record, and replies "Event Created Successfully" with     *)
(* the event's link.                                                       *)
(***************************************************************************)
OneCreateCall(r) ==
    /\ Done(r) /\ ModelResponded(r)
    /\ Len(Requested(r)) = 1
    /\ Requested(r)[1].name = "create_calendar_event_tool"
    /\ calls[r] = BackendOp("insert", "ok")

MessagesOf(r, history) ==
    LET IsMine(m) == m.id = r IN SelectSeq(history, IsMine)

C6_EventCreated ==
    \A r \in Reqs :
        OneCreateCall(r) =>
            LET history == memory[req[r].session_id].messages
                user == HumanMessage(req[r].message, r)
                assistant == LastMessage(channels[r])
                stored == StoredOutput(r)
            IN /\ MessagesOf(r, history) = <<user, assistant>>
               /\ \E i \in 1..(Len(history) - 1) :
                     history[i] = user /\ history[i + 1] = assistant
               /\ stored.ok /\ IsList(stored.val) /\ Len(stored.val.v) = 1
               /\ IsDict(stored.val.v[1])
               /\ DictGet(stored.val.v[1], "kind", PStr("")) = PStr("calendar#event")
               /\ HasKey(stored.val.v[1], "htmlLink")
               /\ response[r].status = "returned"
               /\ Contains(response[r].body, EventCreatedText)
               /\ Contains(response[r].body, DictGet(stored.val.v[1], "htmlLink", PStr("#")).v)

\* an accepted creation has been answered on a session that already had a history
C6_Witness ==
    \E r \in Reqs : OneCreateCall(r) /\ Len(channels[r].messages) > 2

(***************************************************************************)
(* C7: a tool call with an unknown name is recorded as the string          *)
(* "Error: Unknown tool <name>" in its slot, the other calls of the same   *)
(* response are still executed, and the turn ends with a reply, not a      *)
(* failure.                                                                *)
(***************************************************************************)
C7_UnknownToolRecorded ==
    \A r \in Reqs :
        \A i \in 1..MaxCalls :
            (/\ Done(r) /\ ModelResponded(r)
             /\ i <= Len(Requested(r))
             /\ Requested(r)[i].name \notin ToolNames) =>
                /\ raised[r] = NoExc
                /\ response[r].status = "returned"
                /\ Len(tool_output_list[r]) = Len(Requested(r))
                /\ StoredOutput(r).ok /\ IsList(StoredOutput(r).val)
                /\ Len(StoredOutput(r).val.v) = Len(Requested(r))
                /\ StoredOutput(r).val.v[i] =
                      PStr("Error: Unknown tool " \o Requested(r)[i].name)

(***************************************************************************)
(* C8: a turn for one session id leaves the state of every other session   *)
(* id unchanged: a session's history and stored tool output change only    *)
(* in steps of a turn of that session, and hold only what its own turns    *)
(* produced.                                                               *)
(***************************************************************************)
OwnState(sid) ==
    /\ \A i \in 1..Len(memory[sid].messages) :
          req[memory[sid].messages[i].id].session_id = sid
    /\ memory[sid].tool_output # Unset =>
          \E r \in Reqs : /\ req[r].session_id = sid
                          /\ memory[sid].tool_output = channels[r].tool_output

C8_SessionsIsolated ==
    /\ [](\A sid \in Sessions : OwnState(sid))
    /\ [][\A sid \in Sessions :
            memory'[sid] # memory[sid] =>
                \E r \in Reqs : Running(r)' /\ req'[r].session_id = sid]_vars

\* turns of two different sessions have ended, each with its own stored output
C8_Witness ==
    \E r, q \in Reqs :
        /\ req[r].session_id # req[q].session_id
        /\ StoredThisTurn(r) /\ StoredThisTurn(q)
        /\ raised[r] = NoExc /\ raised[q] = NoExc
        /\ memory[req[r].session_id].tool_output # memory[req[q].session_id].tool_output

(***************************************************************************)
(* C9: turns submitted concurrently for one session id are serialized: at  *)
(* most one turn runs at a time, no append is lost, and in the session's   *)
(* history each user message is immediately followed by the assistant      *)
(* message produced for it.                                                *)
(***************************************************************************)
Started(r) == Running(r) \/ (Done(r) /\ req[r].message # "")

C9_TurnsSerialized ==
    /\ Cardinality({r \in Reqs : Running(r)}) <= 1
    /\ \A r \in Reqs :
          Started(r) =>
              LET history == memory[req[r].session_id].messages
              IN \E i \in 1..Len(history) :
                    /\ history[i] = HumanMessage(req[r].message, r)
                    /\ ModelResponded(r) =>
                          /\ i < Len(history)
                          /\ history[i + 1] = LastMessage(channels[r])

\* a second request for the session is waiting while the first one's turn runs
C9_Witness ==
    \E r, q \in Reqs :
        /\ r # q
        /\ req[r].session_id = req[q].session_id
        /\ pc[r] = "call_tool" /\ Len(tool_output_list[r]) >= 1
        /\ pc[q] = "queued" /\ req[q].message # ""

(***************************************************************************)
(* C10: a session's history is append-only: every step leaves the history  *)
(* it had as a prefix of the history it has.                               *)
(***************************************************************************)
IsPrefix(a, b) == Len(a) <= Len(b) /\ SubSeq(b, 1, Len(a)) = a

C10_AppendOnly ==
    [][\A sid \in Sessions : IsPrefix(memory[sid].messages, memory'[sid].messages)]_vars

\* a second turn has appended to the history a first turn left
C10_Witness ==
    \E sid \in Sessions : Len(memory[sid].messages) >= 4

(***************************************************************************)
(* C11: a request whose message is empty gets the fixed reply "Please      *)
(* provide a message." and the loop does not run for it: the model is not  *)
(* invoked, no tool is dispatched, and the step that answers it neither    *)
(* creates nor changes the state of any session.                           *)
(***************************************************************************)
C11_EmptyMessageNoTurn ==
    /\ [](\A r \in Reqs :
            (Done(r) /\ req[r].message = "") =>
                /\ response[r] = Reply(<<Text(EmptyMessageText)>>)
                /\ model_calls[r] = <<>>
                /\ dispatched[r] = <<>> /\ calls[r] = <<>>
                /\ channels[r] = EmptyState
                /\ \A sid \in Sessions : MessagesOf(r, memory[sid].messages) = <<>>)
    /\ [][\A r \in Reqs :
            (req[r].message = "" /\ pc[r] = "queued" /\ pc'[r] # "queued") =>
                /\ Done(r)'
                /\ memory' = memory /\ calendar' = calendar]_vars

\* an empty message was answered for a session that holds the history of a turn
C11_Witness ==
    \E r \in Reqs :
        /\ Done(r) /\ req[r].message = ""
        /\ Len(memory[req[r].session_id].messages) >= 2

(***************************************************************************)
(* C12: neither tool adapter lets an exception out.  For a start or end    *)
(* string that is not a datetime, for a timezone name that is not known,   *)
(* and for any failure of the backend call, the availability adapter       *)
(* returns the empty list and the creation adapter returns the empty       *)
(* mapping.                                                                *)
(***************************************************************************)
AdapterFailureCase ==
    \/ ~IsoOk(adapter.args.start_time_str)
    \/ ~IsoOk(adapter.args.end_time_str)
    \/ ArgOr(adapter.args, DefaultTimezone) \notin KnownTimezones
    \/ ~adapter.backend_ok

Stage(r) ==
    IF pc[r] \in {"idle", "queued"} THEN 0
    ELSE IF pc[r] = "call_model" THEN 1
    ELSE IF pc[r] = "call_tool" THEN 2
    ELSE IF pc[r] = "format" THEN 3 ELSE 4

AllDispatched(r) ==
    pc[r] = "call_tool" /\ Len(tool_output_list[r]) = Len(Requested(r))

C13_SinglePass ==
    /\ [](\A r \in Reqs :
            /\ Len(model_calls[r]) <= 1
            /\ Len(model_calls[r]) = 1 <=>
                  (Stage(r) \in {2, 3} \/ (Done(r) /\ req[r].message # ""))
            /\ pc[r] = "call_tool" => Len(tool_output_list[r]) <= Len(Requested(r))
            /\ pc[r] = "format" =>
                  /\ StoredOutput(r).ok
                  /\ StoredOutput(r).val = PList(tool_output_list[r]))
    /\ [][\A r \in Reqs :
            /\ Stage(r)' >= Stage(r)
            /\ Stage(r) >= 2 => model_calls'[r] = model_calls[r]
            /\ AllDispatched(r) /\ pc'[r] # pc[r] => pc'[r] = "format"]_vars

\* a turn has ended after two tool calls of which one failed in the backend
C13_Witness ==
    \E r \in Reqs :
        /\ StoredThisTurn(r)
        /\ Len(model_calls[r]) = 1
        /\ Len(dispatched[r]) = 2
        /\ \E i \in 1..2 : dispatched[r][i].op # <<>> /\ dispatched[r][i].op[1].outcome # "ok"

(***************************************************************************)
(* C14: the model is invoked with the session's own full history: all the  *)
(* messages the session holds from earlier turns, in their order, then the *)
(* turn's user message as the last one, and no message of another session. *)
(***************************************************************************)
\* the session's history up to and including the user message of request r
HistoryUpTo(r) ==
    LET history == memory[req[r].session_id].messages
        at == CHOOSE i \in 1..Len(history) : history[i] = HumanMessage(req[r].message, r)
    IN SubSeq(history, 1, at)

C14_ModelSeesOwnHistory ==
    \A r \in Reqs :
        \A k \in 1..Len(model_calls[r]) :
            LET input == model_calls[r][k]
            IN /\ input = HistoryUpTo(r)
               /\ input[Len(input)] = HumanMessage(req[r].message, r)
               /\ \A i \in 1..Len(input) :
                     req[input[i].id].session_id = req[r].session_id

\* the model was invoked in the second turn of a session, with the messages of
\* the first turn before the new one
C14_Witness ==
    \E r \in Reqs :
        /\ Len(model_calls[r]) = 1
        /\ Len(model_calls[r][1]) >= 3

(***************************************************************************)
(* C15: the tool calls of one model response are each executed once, in    *)
(* the order the model emitted them, one after the other: when the turn    *)
(* has ended every requested call has been executed, the i-th executed is  *)
(* the i-th requested, and the backend operations of the turn are those of *)
(* the calls in request order, none repeated or skipped.                   *)
(***************************************************************************)
RECURSIVE OpsOf(_)
OpsOf(runs) == IF runs = <<>> THEN <<>> ELSE runs[1].op \o OpsOf(Tail(runs))

\* the backend operation a requested call performs when it is executed
ReachesBackend(call) ==
    /\ call.name \in ToolNames
    /\ RequiredArgsPresent(call.name, call.args)
    /\ ParsesOk(call.args)

C15_CallsInOrderOnce ==
    \A r \in Reqs :
        /\ Len(dispatched[r]) <= (IF ModelResponded(r) THEN Len(Requested(r)) ELSE 0)
        /\ \A i \in 1..Len(dispatched[r]) :
              /\ dispatched[r][i].call = Requested(r)[i]
              /\ ReachesBackend(Requested(r)[i]) <=> Len(dispatched[r][i].op) = 1
        /\ calls[r] = OpsOf(dispatched[r])
        /\ (Done(r) /\ ModelResponded(r)) => Len(dispatched[r]) = Len(Requested(r))

(***************************************************************************)
(* C16: whenever no turn of a session is in progress and the last message  *)
(* of the session's history is an assistant message with k > 0 tool calls, *)
(* the session's stored tool output holds k results, the results of those  *)
(* k calls and not an earlier turn's.                                      *)
(***************************************************************************)
ValuesOf(runs) == [i \in 1..Len(runs) |-> runs[i].value]

C16_NoUnresolvedToolCalls ==
    \A sid \in Sessions :
        LET history == memory[sid].messages
            last == history[Len(history)]
        IN (/\ \A r \in Reqs : req[r].session_id = sid => ~Running(r)
            /\ Len(history) > 0
            /\ last.type = "ai"
            /\ Len(last.tool_calls) > 0)
           => /\ memory[sid].tool_output # Unset
              /\ literal_eval(memory[sid].tool_output).ok
              /\ literal_eval(memory[sid].tool_output).val = PList(ValuesOf(dispatched[last.id]))
              /\ Len(dispatched[last.id]) = Len(last.tool_calls)
              /\ \A i \in 1..Len(last.tool_calls) :
                    /\ dispatched[last.id][i].call = last.tool_calls[i]
                    /\ dispatched[last.id][i].raised = NoExc

(***************************************************************************)
(* C17: each completed turn overwrites the session's stored tool output:   *)
(* after a turn has completed the stored output holds that turn's results  *)
(* only, and it is the empty list after a turn without tool calls even     *)
(* when the turn before had stored results.                                *)
(***************************************************************************)
\* the turns of a session that ran to the end of call_tool
Completed(sid) ==
    {r \in Reqs : req[r].session_id = sid /\ (pc[r] = "format" \/ StoredThisTurn(r))}

AnswerIndex(r) ==
    LET history == memory[req[r].session_id].messages
    IN CHOOSE i \in 1..Len(history) : history[i].type = "ai" /\ history[i].id = r

\* the one of them that completed last
LastCompleted(sid) ==
    CHOOSE r \in Completed(sid) : \A q \in Completed(sid) : AnswerIndex(q) <= AnswerIndex(r)

C17_OutputOverwritten ==
    \A sid \in Sessions :
        Completed(sid) # {} =>
            /\ memory[sid].tool_output # Unset
            /\ literal_eval(memory[sid].tool_output).ok
            /\ literal_eval(memory[sid].tool_output).val
                  = PList(ValuesOf(dispatched[LastCompleted(sid)]))
            /\ Len(dispatched[LastCompleted(sid)]) = Len(Requested(LastCompleted(sid)))

\* a turn that stored two results was followed by a completed turn without
\* tool calls
C17_Witness ==
    \E sid \in Sessions, q \in Reqs :
        /\ Cardinality(Completed(sid)) = 2
        /\ q \in Completed(sid) /\ q # LastCompleted(sid)
        /\ Len(dispatched[q]) = 2
        /\ dispatched[LastCompleted(sid)] = <<>>
        /\ memory[sid].tool_output = ToolOutputText(<<>>)

(***************************************************************************)
(* C18: for a datetime string without UTC offset and a timezone, the       *)
(* instant the adapter sends to the backend is that wall-clock time in the *)
(* given timezone (Asia/Kolkata when none is given), whatever the local    *)
(* timezone of the host is.                                                *)
(***************************************************************************)
\* the instant a datetime with UTC offset denotes, in minutes UTC
Instant(dt) == dt.wall - dt.offset

\* the instant of the wall-clock time of string s in the timezone of args
WallClockInZone(s, args) ==
    fromisoformat(s).wall - TzOffset(ArgOr(args, DefaultTimezone))

C18_NaiveTimesInGivenZone ==
    (adapter.phase = "returned" /\ adapter.sent # <<>>) =>
        /\ ~fromisoformat(adapter.args.start_time_str).aware =>
              Instant(adapter.sent[1]) = WallClockInZone(adapter.args.start_time_str, adapter.args)
        /\ ~fromisoformat(adapter.args.end_time_str).aware =>
              Instant(adapter.sent[2]) = WallClockInZone(adapter.args.end_time_str, adapter.args)

(***************************************************************************)
(* C19: the calendar credential is refreshed under mutual exclusion: at    *)
(* most one refresh or interactive authorization, with its write of the    *)
(* token file, is in flight at a time, and none while a turn of any        *)
(* session runs.                                                           *)
(***************************************************************************)
C19_OneRefreshInFlight ==
    /\ refreshing <= 1
    /\ refreshing = 1 <=> service = "authorizing"
    /\ refreshing > 0 => \A r \in Reqs : pc[r] = "idle"
    /\ (\E r \in Reqs : pc[r] # "idle") => service = "ready"

\* the refresh of an expired or absent token is in flight
C19_Witness ==
    refreshing = 1 /\ service = "authorizing"

(***************************************************************************)
(* C20: a reply holds the text "Event Created Successfully" only if a      *)
(* create_calendar_event_tool call of that same turn was accepted by the   *)
(* backend and returned the created event's record.  A creation that       *)
(* failed (the empty mapping) and the tool output an earlier turn left do  *)
(* not produce it.                                                         *)
(***************************************************************************)
SaysEventCreated(r) == Contains(response[r].body, EventCreatedText)

IsCreatedEvent(run) ==
    /\ run.call.name = "create_calendar_event_tool"
    /\ run.op = BackendOp("insert", "ok")
    /\ run.raised = NoExc
    /\ IsDict(run.value)
    /\ DictGet(run.value, "kind", PStr("")) = PStr("calendar#event")

C20_SuccessOnlyIfCreated ==
    \A r \in Reqs :
        SaysEventCreated(r) =>
            /\ StoredThisTurn(r)
            /\ StoredOutput(r).val = PList(ValuesOf(dispatched[r]))
            /\ \E i \in 1..Len(dispatched[r]) : IsCreatedEvent(dispatched[r][i])

\* after a turn that created an event, a turn of the same session whose
\* creation the backend refused has been answered without the success text
C20_Witness ==
    \E r, q \in Reqs :
        /\ r # q /\ req[r].session_id = req[q].session_id
        /\ Done(q) /\ SaysEventCreated(q)
        /\ StoredThisTurn(r) /\ LastCompleted(req[r].session_id) = r
        /\ Len(dispatched[r]) = 1
        /\ dispatched[r][1].op = BackendOp("insert", "HttpError")
        /\ dispatched[r][1].value = PDict(<<>>)
        /\ ~SaysEventCreated(r)

(***************************************************************************)
(* C21: when the model invocation of a turn fails, the turn appends no     *)
(* assistant message to the session's history, dispatches no tool, leaves  *)
(* the session's stored tool output as it was before the turn and leaves   *)
(* every other session's state unchanged; a later turn on the same         *)
(* session id still runs normally.                                         *)
(***************************************************************************)
ModelFailed(r) == Done(r) /\ raised[r] = "ModelInvocationError"

\* request q called the model after r's user message had entered the history
After(q, r) ==
    /\ q # r /\ req[q].session_id = req[r].session_id
    /\ Len(model_calls[q]) = 1
    /\ \E i \in 1..Len(model_calls[q][1]) :
          model_calls[q][1][i] = HumanMessage(req[r].message, r)

C21_ModelFailureLeavesState ==
    /\ [](\A r \in Reqs :
            ModelFailed(r) =>
                /\ Len(model_calls[r]) = 1
                /\ \A sid \in Sessions :
                      MessagesOf(r, memory[sid].messages) =
                          IF sid = req[r].session_id
                          THEN <<HumanMessage(req[r].message, r)>> ELSE <<>>
                /\ dispatched[r] = <<>> /\ calls[r] = <<>> /\ tool_output_list[r] = <<>>
                /\ response[r] = ErrorResponse("ModelInvocationError")
                /\ \A q \in Reqs :
                      (After(q, r) /\ ModelResponded(q)) =>
                          /\ MessagesOf(q, memory[req[q].session_id].messages)
                                = <<HumanMessage(req[q].message, q), LastMessage(channels[q])>>
                          /\ StoredThisTurn(q) =>
                                /\ Len(dispatched[q]) = Len(Requested(q))
                                /\ StoredOutput(q).val = PList(ValuesOf(dispatched[q])))
    /\ [][\A r \in Reqs :
            /\ (pc[r] = "queued" /\ pc'[r] = "call_model") =>
                  \A sid \in Sessions :
                      /\ memory'[sid].tool_output = memory[sid].tool_output
                      /\ sid # req[r].session_id => memory'[sid] = memory[sid]
            /\ (pc[r] = "call_model" /\ pc'[r] = "done") =>
                  /\ memory' = memory /\ calendar' = calendar
                  /\ ~Running(r)']_vars

\* after a turn of the session in which the model failed, a later turn of the
\* session has run its tool calls and stored their results
C21_Witness ==
    \E r, q \in Reqs :
        /\ ModelFailed(r)
        /\ After(q, r)
        /\ StoredThisTurn(q) /\ Len(dispatched[q]) >= 1
        /\ Len(memory[req[r].session_id].messages) = 3

(***************************************************************************)
(* C22: the reply's template is chosen from the first tool result alone    *)
(* when that result is a created-event record: in a turn with several tool *)
(* calls whose first result is a created-event record the reply is the     *)
(* event-created text for that first result and shows none of the other    *)
(* results, while the stored tool output keeps all of them.  A created     *)
(* event in a later place does not select the template.                    *)
(***************************************************************************)
FirstIsCreatedEvent(r) ==
    /\ StoredThisTurn(r)
    /\ Len(dispatched[r]) >= 2
    /\ IsCreatedEvent(dispatched[r][1])

LinkOf(run) == DictGet(run.value, "htmlLink", PStr("#")).v

C22_FirstResultTemplate ==
    \A r \in Reqs :
        /\ FirstIsCreatedEvent(r) =>
              /\ response[r] = Reply(<<Text(LastMessage(channels[r]).content)>>
                                     \o EventCreatedOutput(dispatched[r][1].value).out)
              /\ Contains(response[r].body, LinkOf(dispatched[r][1]))
              /\ \A i \in 2..Len(dispatched[r]) :
                    IsCreatedEvent(dispatched[r][i]) =>
                        ~Contains(response[r].body, LinkOf(dispatched[r][i]))
              /\ Len(dispatched[r]) = Len(Requested(r))
              /\ StoredOutput(r).val = PList(ValuesOf(dispatched[r]))
        /\ (StoredThisTurn(r) /\ Len(dispatched[r]) >= 1
              /\ ~IsCreatedEvent(dispatched[r][1])) => ~SaysEventCreated(r)

\* a turn that created two events has been answered
C22_Witness ==
    \E r \in Reqs :
        /\ FirstIsCreatedEvent(r)
        /\ IsCreatedEvent(dispatched[r][2])
        /\ dispatched[r][2].value # dispatched[r][1].value
        /\ SaysEventCreated(r)

====
